---- MODULE Spec2Model ----
(***************************************************************************)
(* A model of adf-lint: the lint command (adf_lint/main.py), the rule      *)
(* catalog of ADFLintChecker (adf_lint/adf_linter.py) and the name and     *)
(* dependency helpers (adf_lint/helper.py).                                *)
(*                                                                         *)
(* Python strings that the code slices or searches are sequences of        *)
(* one-character strings; strings that are only compared or printed are    *)
(* TLA+ strings.  A Python dict is a record whose DOMAIN is its key set,   *)
(* so that `'k' in d` is "k" \in DOMAIN d.                                 *)
(***************************************************************************)
EXTENDS Integers, Sequences, FiniteSets, TLC

(***************************************************************************)
(* Bounds of the explored inputs.                                          *)
(***************************************************************************)
\* resources of a document drawn freely from the resource pool
MaxRes == 2
\* dependsOn entries of a generated pipeline, over all its activities
MaxEdges == 3
\* lint commands issued one after another on the same template
MaxRuns == 2
\* bare datasets that pad a document towards the 22 rows of a full summary
PadCount == 5

(***************************************************************************)
(* Python str and list primitives.                                         *)
(***************************************************************************)
Range(s) == {s[i] : i \in 1..Len(s)}

Min(a, b) == IF a < b THEN a ELSE b

Max(a, b) == IF a > b THEN a ELSE b

\* str.find(c) for a one-character c: 0-based index of the first c, or -1
Find(s, c) ==
    IF \E i \in 1..Len(s) : s[i] = c
    THEN (CHOOSE i \in 1..Len(s) : s[i] = c /\ \A j \in 1..(i - 1) : s[j] # c) - 1
    ELSE -1

\* str.rfind(c) for a one-character c: 0-based index of the last c, or -1
RFind(s, c) ==
    IF \E i \in 1..Len(s) : s[i] = c
    THEN (CHOOSE i \in 1..Len(s) : s[i] = c /\ \A j \in (i + 1)..Len(s) : s[j] # c) - 1
    ELSE -1

\* a slice bound as Python normalises it: negative counts from the end
SliceBound(s, k) == IF k < 0 THEN Max(Len(s) + k, 0) ELSE Min(k, Len(s))

\* s[a:b]
Slice(s, a, b) == SubSeq(s, SliceBound(s, a) + 1, SliceBound(s, b))

\* s[a:]
SliceFrom(s, a) == SubSeq(s, SliceBound(s, a) + 1, Len(s))

\* s.replace(c, d) for one-character c and d
Replace(s, c, d) == [i \in 1..Len(s) |-> IF s[i] = c THEN d ELSE s[i]]

\* s.startswith(p)
StartsWith(s, p) == Len(p) <= Len(s) /\ SubSeq(s, 1, Len(p)) = p

\* p in s, for strings
Contains(s, p) ==
    \E i \in 0..(Len(s) - Len(p)) : SubSeq(s, i + 1, i + Len(p)) = p

LowerChar(c) ==
    CASE c = "A" -> "a" [] c = "B" -> "b" [] c = "C" -> "c" [] c = "D" -> "d"
      [] c = "E" -> "e" [] c = "F" -> "f" [] c = "G" -> "g" [] c = "H" -> "h"
      [] c = "I" -> "i" [] c = "J" -> "j" [] c = "K" -> "k" [] c = "L" -> "l"
      [] c = "M" -> "m" [] c = "N" -> "n" [] c = "O" -> "o" [] c = "P" -> "p"
      [] c = "Q" -> "q" [] c = "R" -> "r" [] c = "S" -> "s" [] c = "T" -> "t"
      [] c = "U" -> "u" [] c = "V" -> "v" [] c = "W" -> "w" [] c = "X" -> "x"
      [] c = "Y" -> "y" [] c = "Z" -> "z" [] OTHER -> c

\* s.lower()
Lower(s) == [i \in 1..Len(s) |-> LowerChar(s[i])]

\* `if x not in l: l.append(x)`
AppendNew(l, x) == IF x \in Range(l) THEN l ELSE Append(l, x)

\* `if x in l: l.remove(x)` (the first occurrence)
RemoveFirst(l, x) ==
    IF x \in Range(l)
    THEN LET k == CHOOSE i \in 1..Len(l) : l[i] = x /\ \A j \in 1..(i - 1) : l[j] # x
         IN  SubSeq(l, 1, k - 1) \o SubSeq(l, k + 1, Len(l))
    ELSE l

\* the concatenation of a sequence of sequences
RECURSIVE Flatten(_)
Flatten(ss) == IF ss = <<>> THEN <<>> ELSE Head(ss) \o Flatten(Tail(ss))

(***************************************************************************)
(* adf_lint/helper.py                                                      *)
(***************************************************************************)
clean_name(raw_value) ==
    LET slash_index == Find(raw_value, "/") + 1
        last_quote_index == RFind(raw_value, "'")
    IN  Slice(raw_value, slash_index, last_quote_index)

clean_type(raw_value) ==
    LET last_slash_index == RFind(raw_value, "/") + 1
    IN  SliceFrom(raw_value, last_slash_index)

\* resource_type + "|" + resource_name
complete_resource(resource) ==
    clean_type(resource.type) \o <<"|">> \o clean_name(resource.name)

\* dependant_name.replace('/', '|')
complete_dependant(dependant) == Replace(clean_name(dependant), "/", "|")

\* first loop of get_resource_dependants
RECURSIVE resources_list(_)
resources_list(resources) ==
    IF resources = <<>> THEN <<>>
    ELSE LET n == Len(resources)
         IN  AppendNew(resources_list(SubSeq(resources, 1, n - 1)),
                       complete_resource(resources[n]))

\* `if x not in l: l.append(x)` for every x of xs in turn
RECURSIVE AppendAllNew(_, _)
AppendAllNew(l, xs) ==
    IF xs = <<>> THEN l ELSE AppendAllNew(AppendNew(l, Head(xs)), Tail(xs))

\* the second loop without its elif branch: only single-entry lists count
RECURSIVE dependants_of_resources_single_only(_)
dependants_of_resources_single_only(resources) ==
    IF resources = <<>> THEN <<>>
    ELSE LET n == Len(resources)
             resource == resources[n]
             sofar == dependants_of_resources_single_only(SubSeq(resources, 1, n - 1))
         IN  IF "dependsOn" \in DOMAIN resource /\ Len(resource.dependsOn) = 1
             THEN AppendNew(sofar, complete_dependant(resource.dependsOn[1]))
             ELSE sofar

\* the second loop stopping one resource early
RECURSIVE dependants_of_resources_all(_)
dependants_of_resources_all(resources) ==
    IF resources = <<>> THEN <<>>
    ELSE LET n == Len(resources)
             resource == resources[n]
             sofar == dependants_of_resources_all(SubSeq(resources, 1, n - 1))
         IN  IF "dependsOn" \in DOMAIN resource
             THEN AppendAllNew(sofar, [i \in 1..Len(resource.dependsOn) |->
                                          complete_dependant(resource.dependsOn[i])])
             ELSE sofar

dependants_of_resources_skip_last(resources) ==
    dependants_of_resources_all(SubSeq(resources, 1, Len(resources) - 1))

\* second loop of get_resource_dependants
RECURSIVE dependants_of_resources(_)
dependants_of_resources(resources) ==
    IF resources = <<>> THEN <<>>
    ELSE LET n == Len(resources)
             resource == resources[n]
             sofar == dependants_of_resources(SubSeq(resources, 1, n - 1))
         IN  IF "dependsOn" \in DOMAIN resource /\ Len(resource.dependsOn) = 1
             THEN AppendNew(sofar, complete_dependant(resource.dependsOn[1]))
             ELSE IF "dependsOn" \in DOMAIN resource
             THEN AppendAllNew(sofar, [i \in 1..Len(resource.dependsOn) |->
                                          complete_dependant(resource.dependsOn[i])])
             ELSE sofar

\* the third loop with `>= 0` for `>= 1`
RECURSIVE dependants_of_triggers_any(_, _)
dependants_of_triggers_any(sofar, triggers) ==
    IF triggers = <<>> THEN sofar
    ELSE LET resource == Head(triggers)
         IN  dependants_of_triggers_any(
                 IF "dependsOn" \in DOMAIN resource /\ Len(resource.dependsOn) >= 0
                 THEN AppendNew(sofar, complete_resource(resource))
                 ELSE sofar,
                 Tail(triggers))

\* third loop of get_resource_dependants, continuing the dependants list
RECURSIVE dependants_of_triggers(_, _)
dependants_of_triggers(sofar, triggers) ==
    IF triggers = <<>> THEN sofar
    ELSE LET resource == Head(triggers)
         IN  dependants_of_triggers(
                 IF "dependsOn" \in DOMAIN resource /\ Len(resource.dependsOn) >= 1
                 THEN AppendNew(sofar, complete_resource(resource))
                 ELSE sofar,
                 Tail(triggers))

dependants_list(resources, triggers) ==
    dependants_of_triggers(dependants_of_resources(resources), triggers)

NotIn(l, excluded) == SelectSeq(l, LAMBDA res : res \notin Range(excluded))

get_resource_dependants(resources, triggers) ==
    NotIn(resources_list(resources), dependants_list(resources, triggers))

is_sensitive_property(name) ==
    LET lowered_name == Lower(name)
    IN  \/ Contains(lowered_name, <<"k","e","y">>)
        \/ Contains(lowered_name, <<"s","e","c","r","e","t">>)
        \/ Contains(lowered_name, <<"p","a","s","s","w","o","r","d">>)
        \/ Contains(lowered_name, <<"t","o","k","e","n">>)

(***************************************************************************)
(* String literals of adf_lint/adf_linter.py that the code compares with   *)
(* or searches in sliced names.                                            *)
(***************************************************************************)
TypeLinkedServices ==
    <<"M","i","c","r","o","s","o","f","t",".","D","a","t","a","F","a","c","t","o","r","y","/","f","a","c","t","o","r","i","e","s","/","l","i","n","k","e","d","S","e","r","v","i","c","e","s">>

TypeDatasets ==
    <<"M","i","c","r","o","s","o","f","t",".","D","a","t","a","F","a","c","t","o","r","y","/","f","a","c","t","o","r","i","e","s","/","d","a","t","a","s","e","t","s">>

TypePipelines ==
    <<"M","i","c","r","o","s","o","f","t",".","D","a","t","a","F","a","c","t","o","r","y","/","f","a","c","t","o","r","i","e","s","/","p","i","p","e","l","i","n","e","s">>

TypeDataflows ==
    <<"M","i","c","r","o","s","o","f","t",".","D","a","t","a","F","a","c","t","o","r","y","/","f","a","c","t","o","r","i","e","s","/","d","a","t","a","f","l","o","w","s">>

TypeTriggers ==
    <<"M","i","c","r","o","s","o","f","t",".","D","a","t","a","F","a","c","t","o","r","y","/","f","a","c","t","o","r","i","e","s","/","t","r","i","g","g","e","r","s">>

\* the rule methods in the order main calls them
Catalog ==
    << "check_master_pipeline_without_triggers",
       "check_pipeline_impossible_execution_chain",
       "check_pipeline_descriptions",
       "check_pipelines_not_in_folder",
       "check_pipelines_without_annotation",
       "check_data_flow_descriptions",
       "check_activity_timeout_values",
       "check_copy_activity_diu_values",
       "check_activity_description",
       "check_foreach_batch_size_unset",
       "check_foreach_activity_batch_size_lt_service_maximum",
       "check_linked_services_using_key_vault",
       "check_orphaned_linked_services",
       "check_linked_services_has_description",
       "check_linked_services_has_annotation",
       "check_orphaned_dataset",
       "check_datasets_without_description",
       "check_datasets_not_in_folder",
       "check_datasets_without_annotation",
       "check_orphaned_triggers",
       "check_triggers_has_description",
       "check_triggers_without_annotation" >>

\* what main calls after the rule method `check`
After(check) ==
    LET k == CHOOSE i \in 1..Len(Catalog) : Catalog[i] = check
    IN  IF k < Len(Catalog) THEN Catalog[k + 1] ELSE "log_summary_table"

(***************************************************************************)
(* The attributes of the class ADFLintChecker, for get_check_names.        *)
(***************************************************************************)
\* an attribute: its name, the first six characters of the name for
\* str.startswith, and whether getattr(cls, name) is callable
Member(name, head, callable) == [name |-> name, head |-> head, callable |-> callable]

\* dir(cls): the methods of the class and what it inherits from object (of
\* which __class__, __doc__, __init__ and __module__ stand for the rest), sorted
ClassDir ==
    << Member("__class__", <<"_","_","c","l","a","s">>, TRUE),
       Member("__doc__", <<"_","_","d","o","c","_">>, FALSE),
       Member("__init__", <<"_","_","i","n","i","t">>, TRUE),
       Member("__module__", <<"_","_","m","o","d","u">>, FALSE),
       Member("assert_adf_lint_free", <<"a","s","s","e","r","t">>, TRUE),
       Member("check_activity_description", <<"c","h","e","c","k","_">>, TRUE),
       Member("check_activity_timeout_values", <<"c","h","e","c","k","_">>, TRUE),
       Member("check_copy_activity_diu_values", <<"c","h","e","c","k","_">>, TRUE),
       Member("check_data_flow_descriptions", <<"c","h","e","c","k","_">>, TRUE),
       Member("check_datasets_not_in_folder", <<"c","h","e","c","k","_">>, TRUE),
       Member("check_datasets_without_annotation", <<"c","h","e","c","k","_">>, TRUE),
       Member("check_datasets_without_description", <<"c","h","e","c","k","_">>, TRUE),
       Member("check_foreach_activity_batch_size_lt_service_maximum", <<"c","h","e","c","k","_">>, TRUE),
       Member("check_foreach_batch_size_unset", <<"c","h","e","c","k","_">>, TRUE),
       Member("check_linked_services_has_annotation", <<"c","h","e","c","k","_">>, TRUE),
       Member("check_linked_services_has_description", <<"c","h","e","c","k","_">>, TRUE),
       Member("check_linked_services_using_key_vault", <<"c","h","e","c","k","_">>, TRUE),
       Member("check_master_pipeline_without_triggers", <<"c","h","e","c","k","_">>, TRUE),
       Member("check_orphaned_dataset", <<"c","h","e","c","k","_">>, TRUE),
       Member("check_orphaned_linked_services", <<"c","h","e","c","k","_">>, TRUE),
       Member("check_orphaned_triggers", <<"c","h","e","c","k","_">>, TRUE),
       Member("check_pipeline_descriptions", <<"c","h","e","c","k","_">>, TRUE),
       Member("check_pipeline_impossible_execution_chain", <<"c","h","e","c","k","_">>, TRUE),
       Member("check_pipelines_not_in_folder", <<"c","h","e","c","k","_">>, TRUE),
       Member("check_pipelines_without_annotation", <<"c","h","e","c","k","_">>, TRUE),
       Member("check_triggers_has_description", <<"c","h","e","c","k","_">>, TRUE),
       Member("check_triggers_without_annotation", <<"c","h","e","c","k","_">>, TRUE),
       Member("get_check_names", <<"g","e","t","_","c","h">>, TRUE),
       Member("log_check_output", <<"l","o","g","_","c","h">>, TRUE),
       Member("log_summary_table", <<"l","o","g","_","s","u">>, TRUE),
       Member("main", <<"m","a","i","n">>, TRUE),
       Member("read_arm_template", <<"r","e","a","d","_","a">>, TRUE) >>

\* get_check_names with the startswith("check_") test left out
get_check_names_all_callables ==
    LET hits == SelectSeq(ClassDir, LAMBDA func : func.callable)
    IN  [i \in 1..Len(hits) |-> hits[i].name]

\* [func for func in dir(cls) if callable(getattr(cls, func))
\*  and func.startswith("check_")]
get_check_names ==
    LET hits == SelectSeq(ClassDir, LAMBDA func :
                    func.callable /\ StartsWith(func.head, <<"c","h","e","c","k","_">>))
    IN  [i \in 1..Len(hits) |-> hits[i].name]

(***************************************************************************)
(* The shape of an exported template: ARM name and reference expressions.  *)
(***************************************************************************)
NamePrefix ==
    <<"[","c","o","n","c","a","t","(","p","a","r","a","m","e","t","e","r","s","(","'","f","a","c","t","o","r","y","N","a","m","e","'",")",","," ","'","/">>

RefPrefix ==
    <<"[","c","o","n","c","a","t","(","v","a","r","i","a","b","l","e","s","(","'","f","a","c","t","o","r","y","I","d","'",")",","," ","'","/">>

ExprSuffix ==
    <<"'",")","]">>

\* "[concat(parameters('factoryName'), '/<n>')]"
RawName(n) == NamePrefix \o n \o ExprSuffix

\* "[concat(variables('factoryId'), '/<family>/<n>')]"
Ref(family, n) == RefPrefix \o family \o <<"/">> \o n \o ExprSuffix

FamLinkedServices == <<"l","i","n","k","e","d","S","e","r","v","i","c","e","s">>

FamDatasets == <<"d","a","t","a","s","e","t","s">>

FamPipelines == <<"p","i","p","e","l","i","n","e","s">>

FamTriggers == <<"t","r","i","g","g","e","r","s">>

\* a resource without the optional dependsOn key
Resource(type, name, properties) ==
    [type |-> type, name |-> name, properties |-> properties]

\* a resource with a dependsOn list
ResourceDep(type, name, properties, dependsOn) ==
    [type |-> type, name |-> name, properties |-> properties, dependsOn |-> dependsOn]

(***************************************************************************)
(* State.                                                                  *)
(***************************************************************************)
VARIABLES
    doc,                  \* adf['resources'] of the template file at `path`
    arg_verbose,          \* --verbose of the lint command (click.INT)
    arg_assertion,        \* --assertion of the lint command ("y" or "n")
    pc,                   \* "idle", the rule method main calls next,
                          \* "log_summary_table", "done" or "crashed"
    check_number,         \* ADFLintChecker.check_number
    summary_table,        \* ADFLintChecker.summary_table
    verbose_detail_table, \* ADFLintChecker.verbose_detail_table
    verbose,              \* ADFLintChecker.verbose
    ignore_assertion,     \* ADFLintChecker.ignore_assertion
    linked_services,      \* locals of main
    datasets,
    pipelines,
    activities,
    dataflows,
    triggers,
    redundant_resources,
    exit_status,          \* exit status of the process, -1 while it runs
    error,                \* the uncaught exception, "" if none
    runs,                 \* lint commands started so far
    first_report,         \* summary and detail tables the previous command left
    ran,                  \* the rule methods main has called in this run, in order
    listed                \* the names the list_check_names command printed, if
                          \* it was the last command

checker == <<check_number, summary_table, verbose_detail_table, verbose, ignore_assertion>>

locals == <<linked_services, datasets, pipelines, activities, dataflows, triggers,
            redundant_resources>>

inputs == <<doc, arg_verbose, arg_assertion>>

vars == <<inputs, pc, checker, locals, exit_status, error, runs, first_report, ran,
          listed>>

(***************************************************************************)
(* dict.get with the defaults the rules use.                               *)
(***************************************************************************)
\* d.get(k, '') for a printed string
GetStr(d, k) == IF k \in DOMAIN d THEN d[k] ELSE ""

\* d.get(k, []) for a list
GetList(d, k) == IF k \in DOMAIN d THEN d[k] ELSE <<>>

\* properties.get('folder', {}).get('name', '')
GetFolderName(properties) ==
    IF "folder" \in DOMAIN properties /\ "name" \in DOMAIN properties.folder
    THEN properties.folder.name
    ELSE <<>>

\* redundant_resource.split('|')[1]
SplitPart1(r) ==
    LET rest == SliceFrom(r, Find(r, "|") + 1)
        bar == Find(rest, "|")
    IN  IF bar = -1 THEN rest ELSE Slice(rest, 0, bar)

UnnamedActivity == <<"U","n","n","a","m","e","d"," ","A","c","t","i","v","i","t","y">>

\* activity.get('name', 'Unnamed Activity')
GetActivityName(activity) ==
    IF "name" \in DOMAIN activity THEN activity.name ELSE UnnamedActivity

(***************************************************************************)
(* What each rule flags: the Name of every finding, in the order the       *)
(* rule's loop meets the items.                                            *)
(***************************************************************************)
\* [r for r in redundant_resources if r.startswith(prefix)], split('|')[1]
orphan_names(redundant, prefix) ==
    LET hits == SelectSeq(redundant, LAMBDA r : StartsWith(r, prefix))
    IN  [i \in 1..Len(hits) |-> SplitPart1(hits[i])]

\* the filter with the identifier lowered before the search for "master"
master_pipeline_names_any_case(redundant) ==
    LET hits == SelectSeq(redundant, LAMBDA r :
                    /\ StartsWith(r, FamPipelines)
                    /\ Contains(Lower(r), <<"m","a","s","t","e","r">>))
    IN  [i \in 1..Len(hits) |-> SplitPart1(hits[i])]

\* check_master_pipeline_without_triggers
master_pipeline_names(redundant) ==
    LET hits == SelectSeq(redundant, LAMBDA r :
                    StartsWith(r, FamPipelines) /\ Contains(r, <<"m","a","s","t","e","r">>))
    IN  [i \in 1..Len(hits) |-> SplitPart1(hits[i])]

\* the targets of an activity's dependsOn entries that carry `condition`
targets_with(activity, condition) ==
    LET hits == SelectSeq(activity.dependsOn,
                          LAMBDA e : condition \in Range(e.dependencyConditions))
    IN  [i \in 1..Len(hits) |-> hits[i].activity]

\* the first loop without its `len(activity['dependsOn']) > 1` test
activity_failure_dependencies_any_length(pipeline) ==
    LET acts == pipeline.properties.activities
    IN  AppendAllNew(<<>>, Flatten([i \in 1..Len(acts) |->
            IF "dependsOn" \in DOMAIN acts[i]
            THEN targets_with(acts[i], "Failed")
            ELSE <<>>]))

\* the first loop starting at the second activity
activity_failure_dependencies_skip_first(pipeline) ==
    LET acts == pipeline.properties.activities
    IN  AppendAllNew(<<>>, Flatten([i \in 1..Len(acts) |->
            IF i > 1 /\ "dependsOn" \in DOMAIN acts[i] /\ Len(acts[i].dependsOn) > 1
            THEN targets_with(acts[i], "Failed")
            ELSE <<>>]))

\* first loop over pipeline['properties']['activities']
activity_failure_dependencies(pipeline) ==
    LET acts == pipeline.properties.activities
    IN  AppendAllNew(<<>>, Flatten([i \in 1..Len(acts) |->
            IF "dependsOn" \in DOMAIN acts[i] /\ Len(acts[i].dependsOn) > 1
            THEN targets_with(acts[i], "Failed")
            ELSE <<>>]))

\* second loop: the Succeeded targets of the activities named in `failures`
activity_success_dependencies(pipeline, failures) ==
    LET acts == pipeline.properties.activities
        of(dependant) ==
            Flatten([i \in 1..Len(acts) |->
                IF /\ acts[i].name = dependant
                   /\ "dependsOn" \in DOMAIN acts[i]
                   /\ Len(acts[i].dependsOn) >= 1
                THEN targets_with(acts[i], "Succeeded")
                ELSE <<>>])
    IN  AppendAllNew(<<>>, Flatten([k \in 1..Len(failures) |-> of(failures[k])]))

\* problems of one pipeline
problems(pipeline) ==
    LET failures == activity_failure_dependencies(pipeline)
        successes == activity_success_dependencies(pipeline, failures)
    IN  SelectSeq(failures, LAMBDA problem : problem \in Range(successes))

\* check_pipeline_impossible_execution_chain
impossible_chain_names(pipes) ==
    LET hits == SelectSeq(pipes, LAMBDA pipeline : problems(pipeline) # <<>>)
    IN  [i \in 1..Len(hits) |-> clean_name(hits[i].name)]

\* the rules on `not properties.get('description', '')`
no_description_names(items) ==
    LET hits == SelectSeq(items, LAMBDA r : GetStr(r.properties, "description") = "")
    IN  [i \in 1..Len(hits) |-> clean_name(hits[i].name)]

\* the rules on `not properties.get('folder', {}).get('name', '')`
no_folder_names(items) ==
    LET hits == SelectSeq(items, LAMBDA r : GetFolderName(r.properties) = <<>>)
    IN  [i \in 1..Len(hits) |-> clean_name(hits[i].name)]

\* the rules on `len(properties.get('annotations', [])) <= 0`
no_annotation_names(items) ==
    LET hits == SelectSeq(items, LAMBDA r : Len(GetList(r.properties, "annotations")) <= 0)
    IN  [i \in 1..Len(hits) |-> clean_name(hits[i].name)]

\* `'policy' in activity and 'timeout' in activity['policy']` on an activity dict
has_timeout(activity) ==
    "policy" \in DOMAIN activity /\ "timeout" \in DOMAIN activity.policy

\* `'policy' in activity` where activity is a (folder_name, activity) tuple of
\* main's activities list: the dict never equals the string, the folder name may
policy_in_tuple(pair) == pair[1] = <<"p","o","l","i","c","y">>

\* check_activity_timeout_values: tuple['policy'] raises TypeError
timeout_raises(acts) == \E i \in 1..Len(acts) : policy_in_tuple(acts[i])

\* check_activity_timeout_values: no tuple reaches the timeout comparison
timeout_names(acts) == <<>>

\* check_copy_activity_diu_values: activity["typeProperties"] or activity["type"]
\* raises KeyError
diu_raises(activity) ==
    has_timeout(activity)
    /\ ("typeProperties" \notin DOMAIN activity \/ "type" \notin DOMAIN activity)

\* the activities the loop of check_copy_activity_diu_values completes
diu_completed(acts) ==
    IF \E i \in 1..Len(acts) : diu_raises(acts[i][2])
    THEN SubSeq(acts, 1, (CHOOSE i \in 1..Len(acts) :
                             /\ diu_raises(acts[i][2])
                             /\ \A j \in 1..(i - 1) : ~diu_raises(acts[j][2])) - 1)
    ELSE acts

diu_flagged(activity) ==
    /\ has_timeout(activity)
    /\ activity.type = "Copy"
    /\ "dataIntegrationUnits" \notin DOMAIN activity.typeProperties

\* f"{folder_name}/{activity.get('name', 'Unnamed Activity')}"
diu_names(acts) ==
    LET hits == SelectSeq(diu_completed(acts), LAMBDA pair : diu_flagged(pair[2]))
    IN  [i \in 1..Len(hits) |-> hits[i][1] \o <<"/">> \o GetActivityName(hits[i][2])]

\* check_activity_description, check_foreach_batch_size_unset and
\* check_foreach_activity_batch_size_lt_service_maximum call .get on a tuple
tuple_get_raises(acts) == acts # <<>>

\* repr of a str inside a dict
PyRepr(text) == <<"'">> \o text \o <<"'">>

\* str(prop_value): a JSON string is itself, a JSON object prints as a dict
PyStr(value) ==
    IF "string" \in DOMAIN value THEN value.string
    ELSE LET items == value.object
             item(i) == (IF i > 1 THEN <<",", " ">> ELSE <<>>)
                        \o PyRepr(items[i][1]) \o <<":", " ">> \o PyRepr(items[i][2])
         IN  <<"{">> \o Flatten([i \in 1..Len(items) |-> item(i)]) \o <<"}">>

\* check_linked_services_using_key_vault: indexing raises KeyError
key_vault_raises(services) ==
    \/ \E i \in 1..Len(services) : "type" \notin DOMAIN services[i].properties
    \/ \E i \in 1..Len(services) :
          /\ services[i].properties.type # "AzureKeyVault"
          /\ "typeProperties" \notin DOMAIN services[i].properties

\* the body of the loop over typeProperties.items() for one linked service
RECURSIVE key_vault_scan(_, _, _)
key_vault_scan(linked_service_list, linked_service, items) ==
    IF items = <<>> THEN linked_service_list
    ELSE LET prop_name == Head(items)[1]
             prop_value == Head(items)[2]
         IN  key_vault_scan(
                 IF /\ ~Contains(PyStr(prop_value), <<"s","e","c","r","e","t","N","a","m","e">>)
                    /\ is_sensitive_property(prop_name)
                 THEN AppendNew(linked_service_list,
                                clean_name(linked_service.name)
                                    \o <<" ","-",">"," ">> \o prop_name)
                 ELSE RemoveFirst(linked_service_list, clean_name(linked_service.name)),
                 linked_service, Tail(items))

\* the loop without its `!= "AzureKeyVault"` filter
RECURSIVE key_vault_list_no_exemption(_, _)
key_vault_list_no_exemption(linked_service_list, services) ==
    IF services = <<>> THEN linked_service_list
    ELSE key_vault_list_no_exemption(
             key_vault_scan(linked_service_list, Head(services),
                            GetList(Head(services).properties, "typeProperties")),
             Tail(services))

\* the loop over the linked services that are not key vaults
RECURSIVE key_vault_list(_, _)
key_vault_list(linked_service_list, services) ==
    IF services = <<>> THEN linked_service_list
    ELSE key_vault_list(
             IF Head(services).properties.type # "AzureKeyVault"
             THEN key_vault_scan(linked_service_list, Head(services),
                                 Head(services).properties.typeProperties)
             ELSE linked_service_list,
             Tail(services))

\* check_linked_services_using_key_vault
key_vault_names(services) == key_vault_list(<<>>, services)

(***************************************************************************)
(* main: the locals computed before the first rule.                        *)
(***************************************************************************)
\* [res for res in adf['resources'] if res['type'] == type]
of_type(resources, type) == SelectSeq(resources, LAMBDA res : res.type = type)

\* pipeline['properties']["folder"]["name"] or ["activities"] raises KeyError
activities_raises(pipes) ==
    \E i \in 1..Len(pipes) :
        \/ "activities" \notin DOMAIN pipes[i].properties
        \/ /\ pipes[i].properties.activities # <<>>
           /\ \/ "folder" \notin DOMAIN pipes[i].properties
              \/ "name" \notin DOMAIN pipes[i].properties.folder

\* [(pipeline['properties']["folder"]["name"], p) for pipeline in pipelines
\*  for p in pipeline['properties']["activities"]]
activities_of(pipes) ==
    Flatten([i \in 1..Len(pipes) |->
        [k \in 1..Len(pipes[i].properties.activities) |->
            <<pipes[i].properties.folder.name, pipes[i].properties.activities[k]>>]])

\* has_errors with the first comparison turned around
has_errors_flipped(detail_table, summary) ==
    Len(detail_table) < Len(summary) /\ Len(summary) > 0

\* has_errors of assert_adf_lint_free
has_errors(detail_table, summary) ==
    Len(detail_table) > Len(summary) /\ Len(summary) > 0

(***************************************************************************)
(* Templates: the resources the explored documents are made of.            *)
(***************************************************************************)
Str(text) == [string |-> text]

Documented == [description |-> "d", annotations |-> <<"a">>]

DatasetBare ==
    Resource(TypeDatasets, RawName(<<"D","1">>), [type |-> "AzureBlob"])

DatasetFull ==
    ResourceDep(TypeDatasets, RawName(<<"D","2">>),
        [type |-> "AzureBlob", folder |-> [name |-> <<"f">>]] @@ Documented,
        << Ref(FamLinkedServices, <<"L","1">>) >>)

\* a name expression without its closing quote
DatasetMalformed ==
    Resource(TypeDatasets, <<"f","/","D","9">>, [type |-> "AzureBlob"] @@ Documented)

LinkedPlain ==
    Resource(TypeLinkedServices, RawName(<<"L","1">>),
        [type |-> "AzureBlobStorage",
         typeProperties |-> << <<<<"u","r","l">>, Str(<<"h">>)>>,
                               <<<<"a","c","c","o","u","n","t","K","e","y">>, Str(<<"k">>)>> >>])

LinkedVault ==
    Resource(TypeLinkedServices, RawName(<<"K","1">>),
        [type |-> "AzureKeyVault",
         typeProperties |-> << <<<<"b","a","s","e","U","r","l">>, Str(<<"h">>)>>,
                               <<<<"t","o","k","e","n">>, Str(<<"k">>)>> >>] @@ Documented)

LinkedSecret ==
    ResourceDep(TypeLinkedServices, RawName(<<"L","2">>),
        [type |-> "AzureSqlDatabase",
         typeProperties |-> << <<<<"p","a","s","s","w","o","r","d">>,
                                 [object |-> << <<<<"t","y","p","e">>, <<"S">>>>,
                                                <<<<"s","e","c","r","e","t","N","a","m","e">>, <<"n">>>> >>]>> >>]
            @@ Documented,
        << Ref(FamLinkedServices, <<"K","1">>) >>)

\* a key vault without typeProperties
LinkedVaultBare ==
    Resource(TypeLinkedServices, RawName(<<"K","2">>), [type |-> "AzureKeyVault"])

\* a linked service without typeProperties
LinkedNoProps ==
    Resource(TypeLinkedServices, RawName(<<"L","3">>), [type |-> "AzureSqlDatabase"])

PipelineMaster ==
    ResourceDep(TypePipelines, RawName(<<"m","a","s","t","e","r">>),
        [activities |-> <<>>],
        << Ref(FamDatasets, <<"D","1">>), Ref(FamLinkedServices, <<"L","1">>) >>)

PipelineOther ==
    ResourceDep(TypePipelines, RawName(<<"M","a","s","t","e","r","2">>),
        [activities |-> <<>>, folder |-> [name |-> <<"f">>]] @@ Documented,
        << Ref(FamTriggers, <<"T","2">>) >>)

TriggerWired ==
    ResourceDep(TypeTriggers, RawName(<<"T","1">>), [type |-> "ScheduleTrigger"],
        << Ref(FamPipelines, <<"m","a","s","t","e","r">>) >>)

TriggerEmpty ==
    ResourceDep(TypeTriggers, RawName(<<"T","2">>),
        [type |-> "ScheduleTrigger"] @@ Documented, << >>)

TriggerBare ==
    Resource(TypeTriggers, RawName(<<"T","3">>), [type |-> "ScheduleTrigger"])

Dataflow ==
    ResourceDep(TypeDataflows, RawName(<<"F","1">>), [type |-> "MappingDataFlow"],
        << Ref(FamDatasets, <<"D","2">>), Ref(FamTriggers, <<"T","3">>) >>)

\* the resources whose dependencies refer to one another
ResourcePool ==
    { DatasetBare, DatasetFull, LinkedPlain, PipelineMaster, PipelineOther,
      TriggerWired, TriggerEmpty, TriggerBare, Dataflow }

\* the resources that matter to a single rule or to the name parser
SpecialPool ==
    { DatasetMalformed, LinkedPlain, LinkedVault, LinkedVaultBare, LinkedSecret,
      LinkedNoProps }

\* an activity with the default timeout and no dataIntegrationUnits
ActivityCopy ==
    [name |-> <<"A">>, type |-> "Copy",
     policy |-> [timeout |-> "7.00:00:00"],
     typeProperties |-> [enableStaging |-> FALSE]]

\* a Copy activity without a policy and without dataIntegrationUnits
ActivityCopyBare ==
    [name |-> <<"E">>, type |-> "Copy", typeProperties |-> [enableStaging |-> FALSE]]

\* an activity with a timeout policy and no typeProperties
ActivityNoProps ==
    [name |-> <<"B">>, type |-> "Wait", policy |-> [timeout |-> "0.01:00:00"]]

ActivityForEach ==
    [name |-> <<"C">>, type |-> "ForEach", description |-> "d",
     typeProperties |-> [isSequential |-> FALSE]]

PipelineWith(name, folder, acts) ==
    Resource(TypePipelines, RawName(name),
        [activities |-> acts, folder |-> [name |-> folder]] @@ Documented)

\* a pipeline with an activity and no folder
PipelineNoFolder ==
    Resource(TypePipelines, RawName(<<"P","0">>),
        [activities |-> <<ActivityForEach>>] @@ Documented)

ActivityPipelines ==
    { PipelineWith(<<"P","1">>, <<"f">>, <<ActivityCopy>>),
      PipelineWith(<<"P","2">>, <<"f">>, <<ActivityForEach, ActivityCopy, ActivityNoProps>>),
      PipelineWith(<<"P","3">>, <<"f">>, <<ActivityForEach>>),
      PipelineWith(<<"P","4">>, <<"p","o","l","i","c","y">>, <<ActivityCopy>>),
      PipelineWith(<<"P","5">>, <<"f">>, <<ActivityCopyBare, ActivityCopy>>),
      PipelineNoFolder }

Digits == <<"1","2","3","4","5","6","7","8","9">>

\* the k-th padding dataset
Filler(k) ==
    Resource(TypeDatasets, RawName(<<"X", Digits[k]>>), [type |-> "AzureBlob"])

\* the sequences over S of length at most n
SeqsUpTo(S, n) == UNION {[1..k -> S] : k \in 0..n}

\* the identifiers of a document are pairwise distinct (an exported factory
\* cannot hold two resources of one type under one name)
UniqueIdentifiers(resources) ==
    \A i, j \in 1..Len(resources) :
        complete_resource(resources[i]) = complete_resource(resources[j]) => i = j

FreeDocs == {d \in SeqsUpTo(ResourcePool, MaxRes) : UniqueIdentifiers(d)}

ActivityDocs ==
    {<<p>> : p \in ActivityPipelines}
    \cup {<<r, p>> : r \in {DatasetBare, LinkedPlain}, p \in ActivityPipelines}

PaddedDocs ==
    {[k \in 1..PadCount |-> Filler(k)] \o d : d \in SeqsUpTo(ResourcePool, 1)}

SpecialDocs == {d \in SeqsUpTo(SpecialPool, 2) : UniqueIdentifiers(d)}

Docs == FreeDocs \cup SpecialDocs \cup ActivityDocs \cup PaddedDocs

(***************************************************************************)
(* Generated pipelines: every way to lay at most MaxEdges dependencies      *)
(* over the activities A, B and C, or over the first ones of them.         *)
(***************************************************************************)
ActivityNames == << <<"A">>, <<"B">>, <<"C">> >>

ConditionLists == { <<"Succeeded">>, <<"Failed">> }

\* activity `src` depends on activity `tgt` under `conds`
EdgeKinds(n) ==
    {e \in [src : 1..n, tgt : 1..n, conds : ConditionLists] : e.src # e.tgt}

\* the activity number k: its dependsOn lists the edges that leave it, in order;
\* without any it has no dependsOn key
ActivityOf(k, edges) ==
    LET mine == SelectSeq(edges, LAMBDA e : e.src = k)
        base == [name |-> ActivityNames[k], type |-> "Wait"]
    IN  IF mine = <<>> THEN base
        ELSE base @@ [dependsOn |-> [i \in 1..Len(mine) |->
                 [activity |-> ActivityNames[mine[i].tgt],
                  dependencyConditions |-> mine[i].conds]]]

GeneratedPipelines(maxEdges) ==
    {PipelineWith(<<"G">>, <<"f">>, [k \in 1..n |-> ActivityOf(k, edges)]) :
        n \in 1..Len(ActivityNames),
        edges \in SeqsUpTo(EdgeKinds(Len(ActivityNames)), maxEdges)}

\* B and C must both have failed for A, yet each waits for the other's success
PipelineFlagged ==
    PipelineWith(<<"H","1">>, <<"f">>,
        << [name |-> <<"A">>, type |-> "Wait",
            dependsOn |-> << [activity |-> <<"B">>, dependencyConditions |-> <<"Failed">>],
                             [activity |-> <<"C">>, dependencyConditions |-> <<"Failed">>] >>],
           [name |-> <<"B">>, type |-> "Wait",
            dependsOn |-> << [activity |-> <<"C">>,
                              dependencyConditions |-> <<"Succeeded", "Completed">>] >>],
           [name |-> <<"C">>, type |-> "Wait",
            dependsOn |-> << [activity |-> <<"B">>,
                              dependencyConditions |-> <<"Succeeded">>] >>] >>)

ChainDocs ==
    {<<g>> : g \in GeneratedPipelines(MaxEdges)}
    \cup {<<PipelineFlagged, g>> : g \in GeneratedPipelines(MaxEdges)}

(***************************************************************************)
(* The state machine.                                                      *)
(***************************************************************************)
\* the checker as __init__ leaves it, no command started
InitWith(documents, assertions) ==
    /\ doc \in documents
    /\ arg_verbose \in {0, 1}
    /\ arg_assertion \in assertions
    /\ pc = "idle"
    /\ check_number = 0
    /\ summary_table = <<>>
    /\ verbose_detail_table = <<>>
    /\ verbose = arg_verbose
    /\ ignore_assertion = (arg_assertion = "n")
    /\ linked_services = <<>>
    /\ datasets = <<>>
    /\ pipelines = <<>>
    /\ activities = <<>>
    /\ dataflows = <<>>
    /\ triggers = <<>>
    /\ redundant_resources = <<>>
    /\ exit_status = -1
    /\ error = ""
    /\ runs = 0
    /\ first_report = [summary |-> <<>>, detail |-> <<>>]
    /\ ran = <<>>
    /\ listed = <<>>

Init == InitWith(Docs, {"y", "n"})

\* __init__ with the tables as class attributes, shared by every checker
Construct_shared_tables ==
    /\ check_number' = 0
    /\ summary_table' = summary_table
    /\ verbose_detail_table' = verbose_detail_table
    /\ verbose' = arg_verbose
    /\ ignore_assertion' = (arg_assertion = "n")

\* ADFLintChecker.__init__
Construct ==
    /\ check_number' = 0
    /\ summary_table' = <<>>
    /\ verbose_detail_table' = <<>>
    /\ verbose' = arg_verbose
    /\ ignore_assertion' = (arg_assertion = "n")

\* the lint command: a new checker, then main up to its first rule
Lint ==
    /\ pc \in {"idle", "done", "crashed"}
    /\ runs < MaxRuns
    /\ runs' = runs + 1
    /\ first_report' = [summary |-> summary_table, detail |-> verbose_detail_table]
    /\ ran' = <<>>
    /\ listed' = <<>>
    /\ Construct
    /\ LET pipes == of_type(doc, TypePipelines)
           trigs == of_type(doc, TypeTriggers)
       IN  IF activities_raises(pipes)
           THEN /\ pc' = "crashed"
                /\ error' = "KeyError"
                /\ exit_status' = 1
                /\ linked_services' = <<>>
                /\ datasets' = <<>>
                /\ pipelines' = <<>>
                /\ activities' = <<>>
                /\ dataflows' = <<>>
                /\ triggers' = <<>>
                /\ redundant_resources' = <<>>
           ELSE /\ pc' = Catalog[1]
                /\ error' = ""
                /\ exit_status' = -1
                /\ linked_services' = of_type(doc, TypeLinkedServices)
                /\ datasets' = of_type(doc, TypeDatasets)
                /\ pipelines' = pipes
                /\ activities' = activities_of(pipes)
                /\ dataflows' = of_type(doc, TypeDataflows)
                /\ triggers' = trigs
                /\ redundant_resources' = get_resource_dependants(doc, trigs)
    /\ UNCHANGED inputs

\* the rows of a rule that records only the first item it flags
details_first_only(names, component, item_detail, severity) ==
    [i \in 1..Min(Len(names), 1) |->
        [Component |-> component, Name |-> names[i],
         CheckDetail |-> item_detail, Severity |-> severity]]

\* the rows a rule appends to verbose_detail_table for the names it flags
details(names, component, item_detail, severity) ==
    [i \in 1..Len(names) |->
        [Component |-> component, Name |-> names[i],
         CheckDetail |-> item_detail, Severity |-> severity]]

\* a rule method that keeps one summary row and overwrites it
Completes_overwriting(check, names, component, item_detail, check_detail, severity) ==
    /\ pc = check
    /\ check_number' = check_number + 1
    /\ verbose_detail_table' =
           IF verbose # 0
           THEN verbose_detail_table \o details(names, component, item_detail, severity)
           ELSE verbose_detail_table
    /\ summary_table' =
           << [IssueCount |-> Len(names), CheckDetail |-> check_detail,
               Severity |-> severity] >>
    /\ pc' = After(check)
    /\ ran' = Append(ran, check)
    /\ UNCHANGED <<verbose, ignore_assertion, locals, inputs, exit_status, error, runs,
                   first_report, listed>>

\* a rule method that returns: the counter, the findings, the summary row
Completes(check, names, component, item_detail, check_detail, severity) ==
    /\ pc = check
    /\ check_number' = check_number + 1
    /\ verbose_detail_table' =
           IF verbose # 0
           THEN verbose_detail_table \o details(names, component, item_detail, severity)
           ELSE verbose_detail_table
    /\ summary_table' = Append(summary_table,
           [IssueCount |-> Len(names), CheckDetail |-> check_detail, Severity |-> severity])
    /\ pc' = After(check)
    /\ ran' = Append(ran, check)
    /\ UNCHANGED <<verbose, ignore_assertion, locals, inputs, exit_status, error, runs,
                   first_report, listed>>

\* a rule method that raises after it has flagged `names`: the traceback ends
\* the process with status 1
Raises(check, exception, names, component, item_detail, severity) ==
    /\ pc = check
    /\ check_number' = check_number + 1
    /\ verbose_detail_table' =
           IF verbose # 0
           THEN verbose_detail_table \o details(names, component, item_detail, severity)
           ELSE verbose_detail_table
    /\ pc' = "crashed"
    /\ error' = exception
    /\ exit_status' = 1
    /\ ran' = Append(ran, check)
    /\ UNCHANGED <<summary_table, verbose, ignore_assertion, locals, inputs, runs,
                   first_report, listed>>

check_master_pipeline_without_triggers ==
    /\ pc = "check_master_pipeline_without_triggers"
    /\ Completes("check_master_pipeline_without_triggers",
        master_pipeline_names(redundant_resources),
        "Pipeline", "Does not have any triggers attached.",
        "Master Pipeline(s) without any triggers attached. Directly or indirectly.",
        "Medium")

check_pipeline_impossible_execution_chain ==
    /\ pc = "check_pipeline_impossible_execution_chain"
    /\ Completes("check_pipeline_impossible_execution_chain",
        impossible_chain_names(pipelines),
        "Pipeline", "Has an impossible AND/OR activity execution chain.",
        "Pipeline(s) with an impossible AND/OR activity execution chain.",
        "High")

check_pipeline_descriptions ==
    /\ pc = "check_pipeline_descriptions"
    /\ Completes("check_pipeline_descriptions", no_description_names(pipelines),
        "Pipeline", "Does not have a description.",
        "Pipeline(s) without a description value.", "Low")

check_pipelines_not_in_folder ==
    /\ pc = "check_pipelines_not_in_folder"
    /\ Completes("check_pipelines_not_in_folder", no_folder_names(pipelines),
        "Pipeline", "Not organised into a folder.",
        "Pipeline(s) not organised into folders.", "Low")

check_pipelines_without_annotation ==
    /\ pc = "check_pipelines_without_annotation"
    /\ Completes("check_pipelines_without_annotation", no_annotation_names(pipelines),
        "Pipeline", "Does not have any annotations.",
        "Pipeline(s) without annotations.", "Low")

check_data_flow_descriptions ==
    /\ pc = "check_data_flow_descriptions"
    /\ Completes("check_data_flow_descriptions", no_description_names(dataflows),
        "Data Flow", "Does not have a description.",
        "Data Flow(s) without a description value.", "Low")

check_activity_timeout_values ==
    IF timeout_raises(activities)
    THEN Raises("check_activity_timeout_values", "TypeError", <<>>,
             "Activity", "Timeout policy still set to the service default value of 7 days.",
             "High")
    ELSE Completes("check_activity_timeout_values", timeout_names(activities),
             "Activity", "Timeout policy still set to the service default value of 7 days.",
             "Activities with timeout values still set to the service default value of 7 days.",
             "High")

check_copy_activity_diu_values ==
    IF diu_completed(activities) # activities
    THEN Raises("check_copy_activity_diu_values", "KeyError", diu_names(activities),
             "Activity", "DIU still set to the service default value of 'Auto'.", "High")
    ELSE Completes("check_copy_activity_diu_values", diu_names(activities),
             "Activity", "DIU still set to the service default value of 'Auto'.",
             "Activities with DIU (Data Integration Units) values still set to the service default value of 'Auto'",
             "High")

check_activity_description ==
    IF tuple_get_raises(activities)
    THEN Raises("check_activity_description", "AttributeError", <<>>,
             "Activity", "Does not have a description.", "Low")
    ELSE Completes("check_activity_description", <<>>,
             "Activity", "Does not have a description.",
             "Activities without a description value.", "Low")

check_foreach_batch_size_unset ==
    IF tuple_get_raises(activities)
    THEN Raises("check_foreach_batch_size_unset", "AttributeError", <<>>,
             "Activity", "ForEach does not have a batch count value set.", "High")
    ELSE Completes("check_foreach_batch_size_unset", <<>>,
             "Activity", "ForEach does not have a batch count value set.",
             "Activities ForEach iteration without a batch count value set.", "High")

check_foreach_activity_batch_size_lt_service_maximum ==
    IF tuple_get_raises(activities)
    THEN Raises("check_foreach_activity_batch_size_lt_service_maximum", "AttributeError",
             <<>>, "Activity",
             "ForEach has a batch size that is less than the service maximum.", "Medium")
    ELSE Completes("check_foreach_activity_batch_size_lt_service_maximum", <<>>,
             "Activity", "ForEach has a batch size that is less than the service maximum.",
             "Activities ForEach iteration with a batch count size that is less than the service maximum.",
             "Medium")

check_linked_services_using_key_vault ==
    IF key_vault_raises(linked_services)
    THEN Raises("check_linked_services_using_key_vault", "KeyError", <<>>,
             "Linked Service", "Not using Key Vault to store credentials.", "High")
    ELSE Completes("check_linked_services_using_key_vault",
             key_vault_names(linked_services),
             "Linked Service", "Not using Key Vault to store credentials.",
             "Linked Service(s) not using Azure Key Vault to store credentials.", "High")

check_orphaned_linked_services ==
    /\ pc = "check_orphaned_linked_services"
    /\ Completes("check_orphaned_linked_services",
        orphan_names(redundant_resources, FamLinkedServices),
        "Linked Service", "Not used by any other resource.",
        "Linked Service(s) not used by any other resource.", "Medium")

check_linked_services_has_description ==
    /\ pc = "check_linked_services_has_description"
    /\ Completes("check_linked_services_has_description",
        no_description_names(linked_services),
        "Linked Service", "Does not have a description.",
        "Linked Service(s) without a description value.", "Low")

check_linked_services_has_annotation ==
    /\ pc = "check_linked_services_has_annotation"
    /\ Completes("check_linked_services_has_annotation",
        no_annotation_names(linked_services),
        "Linked Service", "Does not have any annotations.",
        "Linked Service(s) without annotations.", "Low")

check_orphaned_dataset ==
    /\ pc = "check_orphaned_dataset"
    /\ Completes("check_orphaned_dataset", orphan_names(redundant_resources, FamDatasets),
        "Dataset", "Not used by any other resource.",
        "Dataset(s) not used by any other resource.", "Medium")

check_datasets_without_description ==
    /\ pc = "check_datasets_without_description"
    /\ Completes("check_datasets_without_description", no_description_names(datasets),
        "Dataset", "Does not have a description.",
        "Dataset(s) without a description value.", "Low")

check_datasets_not_in_folder ==
    /\ pc = "check_datasets_not_in_folder"
    /\ Completes("check_datasets_not_in_folder", no_folder_names(datasets),
        "Dataset", "Not organised into a folder.",
        "Dataset(s) not organised into folders.", "Low")

check_datasets_without_annotation ==
    /\ pc = "check_datasets_without_annotation"
    /\ Completes("check_datasets_without_annotation", no_annotation_names(datasets),
        "Dataset", "Does not have any annotations.",
        "Dataset(s) without annotations.", "Low")

check_orphaned_triggers ==
    /\ pc = "check_orphaned_triggers"
    /\ Completes("check_orphaned_triggers", orphan_names(redundant_resources, FamTriggers),
        "Trigger", "Not used by any other resource.",
        "Trigger(s) not used by any other resource.", "Medium")

check_triggers_has_description ==
    /\ pc = "check_triggers_has_description"
    /\ Completes("check_triggers_has_description", no_description_names(triggers),
        "Trigger", "Does not have a description.",
        "Trigger(s) without a description value.", "Low")

check_triggers_without_annotation ==
    /\ pc = "check_triggers_without_annotation"
    /\ Completes("check_triggers_without_annotation", no_annotation_names(triggers),
        "Trigger", "Does not have any annotations.",
        "Trigger(s) without annotations.", "Low")

\* log_summary_table only prints
log_summary_table ==
    /\ pc = "log_summary_table"
    /\ pc' = "assert_adf_lint_free"
    /\ UNCHANGED <<inputs, checker, locals, exit_status, error, runs, first_report, ran,
                   listed>>

\* sys.exit(has_errors), or main returns and the command ends with status 0
assert_adf_lint_free ==
    /\ pc = "assert_adf_lint_free"
    /\ exit_status' =
           IF ~ignore_assertion
           THEN IF has_errors(verbose_detail_table, summary_table) THEN 1 ELSE 0
           ELSE 0
    /\ pc' = "done"
    /\ UNCHANGED <<inputs, checker, locals, error, runs, first_report, ran, listed>>

\* the list_check_names command: prints the names, constructs no checker
list_check_names ==
    /\ pc \in {"idle", "done", "crashed"}
    /\ listed' = get_check_names
    /\ UNCHANGED <<inputs, pc, checker, locals, exit_status, error, runs, first_report,
                   ran>>

PipelineRules ==
    \/ check_master_pipeline_without_triggers
    \/ check_pipeline_impossible_execution_chain
    \/ check_pipeline_descriptions
    \/ check_pipelines_not_in_folder
    \/ check_pipelines_without_annotation
    \/ check_data_flow_descriptions

ActivityRules ==
    \/ check_activity_timeout_values
    \/ check_copy_activity_diu_values
    \/ check_activity_description
    \/ check_foreach_batch_size_unset
    \/ check_foreach_activity_batch_size_lt_service_maximum

ResourceRules ==
    \/ check_linked_services_using_key_vault
    \/ check_orphaned_linked_services
    \/ check_linked_services_has_description
    \/ check_linked_services_has_annotation
    \/ check_orphaned_dataset
    \/ check_datasets_without_description
    \/ check_datasets_not_in_folder
    \/ check_datasets_without_annotation
    \/ check_orphaned_triggers
    \/ check_triggers_has_description
    \/ check_triggers_without_annotation

Next ==
    \/ Lint
    \/ PipelineRules
    \/ ActivityRules
    \/ ResourceRules
    \/ log_summary_table
    \/ assert_adf_lint_free
    \/ list_check_names

Spec == Init /\ [][Next]_vars

(***************************************************************************)
(* The run up to the execution chain rule, over the generated pipelines.   *)
(***************************************************************************)
InitChain == InitWith(ChainDocs, {"y"})

NextChain ==
    \/ Lint
    \/ check_master_pipeline_without_triggers
    \/ check_pipeline_impossible_execution_chain

SpecChain == InitChain /\ [][NextChain]_vars

(***************************************************************************)
(* Properties.                                                             *)
(***************************************************************************)
\* get_resource_dependants has just returned to main
Loaded == pc = Catalog[1]

\* the summary row of the rule `check`, once the rule has returned
RowOf(check) ==
    summary_table[CHOOSE i \in 1..Len(Catalog) : Catalog[i] = check]

Returned(check) ==
    Len(summary_table) >= (CHOOSE i \in 1..Len(Catalog) : Catalog[i] = check)

\* C1: after a run that does not suppress assertion the exit status is non-zero
\* exactly when at least one finding was recorded and at least one rule ran;
\* a run that suppresses assertion ends with status 0.
C1_ExitStatusSignalsFindings ==
    pc = "done" =>
        IF ~ignore_assertion
        THEN (exit_status # 0) <=> (Len(verbose_detail_table) >= 1 /\ check_number >= 1)
        ELSE exit_status = 0

\* C2: a run that fails has failed before any rule executed; every other run
\* goes through the whole catalog.
C2_FailsFastOrCompletes ==
    pc = "crashed" => (check_number = 0 /\ summary_table = <<>>)

\* the activities that some dependsOn list of more than one entry requires to
\* have failed
MustHaveFailed(pipeline) ==
    {e.activity : e \in UNION {
        {d \in Range(a.dependsOn) : "Failed" \in Range(d.dependencyConditions)} :
            a \in {b \in Range(pipeline.properties.activities) :
                     "dependsOn" \in DOMAIN b /\ Len(b.dependsOn) > 1}}}

\* the activities that an activity named in MustHaveFailed requires to have
\* succeeded
MustHaveSucceeded(pipeline) ==
    {e.activity : e \in UNION {
        {d \in Range(a.dependsOn) : "Succeeded" \in Range(d.dependencyConditions)} :
            a \in {b \in Range(pipeline.properties.activities) :
                     /\ b.name \in MustHaveFailed(pipeline)
                     /\ "dependsOn" \in DOMAIN b}}}

Contradictions(pipeline) == MustHaveFailed(pipeline) \cap MustHaveSucceeded(pipeline)

FlaggedPipelines == {i \in 1..Len(pipelines) : Contradictions(pipelines[i]) # {}}

ChainFindings ==
    SelectSeq(verbose_detail_table,
              LAMBDA f : f.CheckDetail = "Has an impossible AND/OR activity execution chain.")

\* C3: the execution chain rule counts exactly the pipelines whose
\* mustHaveFailed and mustHaveSucceeded sets intersect, one issue per pipeline,
\* with severity High; in verbose mode its findings name exactly those pipelines.
C3_ImpossibleChainCount ==
    Returned("check_pipeline_impossible_execution_chain") =>
        /\ RowOf("check_pipeline_impossible_execution_chain").IssueCount
               = Cardinality(FlaggedPipelines)
        /\ RowOf("check_pipeline_impossible_execution_chain").Severity = "High"
        /\ verbose # 0 =>
               /\ Len(ChainFindings) = Cardinality(FlaggedPipelines)
               /\ {f.Name : f \in Range(ChainFindings)}
                      = {clean_name(pipelines[i].name) : i \in FlaggedPipelines}
               /\ \A f \in Range(ChainFindings) : f.Severity = "High"

\* two pipelines are flagged for one issue each, the first of them holding two
\* contradicting activities
C3_Witness ==
    /\ Returned("check_pipeline_impossible_execution_chain")
    /\ Len(pipelines) = 2
    /\ Cardinality(Contradictions(pipelines[1])) = 2
    /\ RowOf("check_pipeline_impossible_execution_chain").IssueCount = 2

\* the identifiers of the top-level resources
Declared == {complete_resource(doc[i]) : i \in 1..Len(doc)}

\* the normalized targets of every dependsOn entry
Targets ==
    UNION {{complete_dependant(doc[i].dependsOn[k]) : k \in 1..Len(doc[i].dependsOn)} :
              i \in {j \in 1..Len(doc) : "dependsOn" \in DOMAIN doc[j]}}

\* the triggers that have a dependency of their own
WiredTriggers ==
    {complete_resource(doc[i]) :
        i \in {j \in 1..Len(doc) : /\ doc[j].type = TypeTriggers
                                   /\ "dependsOn" \in DOMAIN doc[j]
                                   /\ Len(doc[j].dependsOn) >= 1}}

Referenced == Targets \cup WiredTriggers

\* where an identifier is first declared
FirstDeclared(id) ==
    CHOOSE i \in 1..Len(doc) :
        /\ complete_resource(doc[i]) = id
        /\ \A j \in 1..(i - 1) : complete_resource(doc[j]) # id

\* C4: the orphan list is declared - referenced: only declared identifiers,
\* none that is the target of a dependsOn entry, every unreferenced one exactly
\* once, in declaration order.
C4_OrphansAreDeclaredMinusReferenced ==
    Loaded =>
        /\ Range(redundant_resources) \subseteq Declared
        /\ Range(redundant_resources) \cap Targets = {}
        /\ Range(redundant_resources) = Declared \ Referenced
        /\ \A i, j \in 1..Len(redundant_resources) :
               i < j => FirstDeclared(redundant_resources[i])
                            < FirstDeclared(redundant_resources[j])

\* a document with an orphan and a referenced resource behind it
C4_Witness ==
    /\ Loaded
    /\ Len(redundant_resources) >= 1
    /\ Declared \cap Targets # {}
    /\ \E i \in 1..Len(doc) :
           /\ complete_resource(doc[i]) \in Targets
           /\ i < FirstDeclared(redundant_resources[Len(redundant_resources)])

\* C5: a trigger is orphaned iff its dependsOn is absent or empty and no
\* dependsOn entry of the document normalizes to its identifier.
C5_TriggerOrphanedIff ==
    Loaded =>
        \A i \in 1..Len(triggers) :
            complete_resource(triggers[i]) \in Range(redundant_resources)
            <=> /\ "dependsOn" \notin DOMAIN triggers[i] \/ triggers[i].dependsOn = <<>>
                /\ complete_resource(triggers[i]) \notin Targets

\* a trigger with a dependency that nothing refers to and is not orphaned, next
\* to a trigger with an empty dependsOn that is
C5_Witness ==
    /\ Loaded
    /\ \E i, j \in 1..Len(triggers) :
           /\ "dependsOn" \in DOMAIN triggers[i] /\ Len(triggers[i].dependsOn) >= 1
           /\ complete_resource(triggers[i]) \notin Targets
           /\ complete_resource(triggers[i]) \notin Range(redundant_resources)
           /\ "dependsOn" \in DOMAIN triggers[j] /\ triggers[j].dependsOn = <<>>
           /\ complete_resource(triggers[j]) \in Range(redundant_resources)

\* C6: on a document without resources every rule reports zero issues, no
\* finding is recorded, and the completed run of all 22 rules exits with 0.
C6_EmptyDocumentPasses ==
    doc = <<>> =>
        /\ \A i \in 1..Len(summary_table) : summary_table[i].IssueCount = 0
        /\ verbose_detail_table = <<>>
        /\ pc \notin {"crashed"}
        /\ pc = "done" => (Len(summary_table) = 22 /\ check_number = 22 /\ exit_status = 0)

\* the verbose, asserting run on the empty document has ended
C6_Witness ==
    /\ doc = <<>>
    /\ pc = "done"
    /\ verbose # 0
    /\ ~ignore_assertion
    /\ Len(summary_table) = 22

Perms(n) == {f \in [1..n -> 1..n] : \A i, j \in 1..n : f[i] = f[j] => i = j}

\* the resources in the order f
Permuted(resources, f) == [i \in 1..Len(resources) |-> resources[f[i]]]

\* C8: every reordering of the resource list yields the same set of orphans.
C8_OrphansStableUnderReordering ==
    (Loaded /\ Len(doc) <= MaxRes) =>
        \A f \in Perms(Len(doc)) :
            Range(get_resource_dependants(Permuted(doc, f),
                                          of_type(Permuted(doc, f), TypeTriggers)))
                = Range(redundant_resources)

\* a document of two resources, one referenced by the other, one orphaned
C8_Witness ==
    /\ Loaded
    /\ Len(doc) = 2
    /\ redundant_resources # <<>>
    /\ Declared \cap Referenced # {}

\* the pipeline with its activities i and j swapped
SwapActivities(pipeline, i, j) ==
    LET acts == pipeline.properties.activities
        swapped == [k \in 1..Len(acts) |->
                       IF k = i THEN acts[j] ELSE IF k = j THEN acts[i] ELSE acts[k]]
    IN  [pipeline EXCEPT !.properties = [pipeline.properties EXCEPT !.activities = swapped]]

\* C9: swapping two activities of a pipeline does not change whether the
\* execution chain rule flags the pipeline.
C9_FlagIndependentOfActivityOrder ==
    Returned("check_pipeline_impossible_execution_chain") =>
        \A p \in 1..Len(pipelines) :
            \A i, j \in 1..Len(pipelines[p].properties.activities) :
                LET swapped == [q \in 1..Len(pipelines) |->
                                   IF q = p THEN SwapActivities(pipelines[q], i, j)
                                   ELSE pipelines[q]]
                IN  /\ RowOf("check_pipeline_impossible_execution_chain").IssueCount
                           = Len(impossible_chain_names(swapped))
                    /\ verbose # 0 =>
                           [k \in 1..Len(ChainFindings) |-> ChainFindings[k].Name]
                               = impossible_chain_names(swapped)

\* a flagged pipeline whose contradicting activity is declared after the
\* activities that depend on it
C9_Witness ==
    /\ Returned("check_pipeline_impossible_execution_chain")
    /\ Len(pipelines) = 1
    /\ Len(pipelines[1].properties.activities) = 3
    /\ RowOf("check_pipeline_impossible_execution_chain").IssueCount = 1

\* C10: a resource name without a closing quote ends the run with
\* MalformedResourceNameError.
C10_MalformedNameIsFatal ==
    (runs >= 1 /\ \E i \in 1..Len(doc) : RFind(doc[i].name, "'") = -1) =>
        (pc = "crashed" /\ error = "MalformedResourceNameError")

\* C11: canonicalization is idempotent on its own output: for every raw name r
\* of the document, clean_name(clean_name(r)) = clean_name(r).
C11_CleanNameIdempotent ==
    runs >= 1 =>
        \A i \in 1..Len(doc) :
            clean_name(clean_name(doc[i].name)) = clean_name(doc[i].name)

\* C12: a rule that meets an item without a field it reads does not abort the
\* run: once the first rule has started, no run ends on a KeyError.
C12_MissingFieldDoesNotAbort ==
    check_number >= 1 => ~(pc = "crashed" /\ error = "KeyError")

IsKeyVault(linked_service) == linked_service.properties.type = "AzureKeyVault"

KeyVaultFindings ==
    SelectSeq(verbose_detail_table,
              LAMBDA f : f.CheckDetail = "Not using Key Vault to store credentials.")

\* C13: a linked service of type AzureKeyVault never contributes to
\* check_linked_services_using_key_vault: the rule counts what it would count
\* with the key vaults taken out of the document, none of its findings names
\* a key vault, and it never stops on a key vault without typeProperties.
C13_KeyVaultExempt ==
    /\ Returned("check_linked_services_using_key_vault") =>
           /\ RowOf("check_linked_services_using_key_vault").IssueCount
                  = Len(key_vault_names(SelectSeq(linked_services,
                                                  LAMBDA ls : ~IsKeyVault(ls))))
           /\ \A f \in Range(KeyVaultFindings) :
                  \A i \in 1..Len(linked_services) :
                      IsKeyVault(linked_services[i]) =>
                          ~StartsWith(f.Name, clean_name(linked_services[i].name)
                                                  \o <<" ","-",">"," ">>)
    /\ (pc = "crashed" /\ check_number = 12) =>
           \E i \in 1..Len(linked_services) :
               /\ ~IsKeyVault(linked_services[i])
               /\ "typeProperties" \notin DOMAIN linked_services[i].properties

\* a key vault that keeps a token in plain text stands before a storage
\* account that keeps its account key in plain text: one issue, one finding
C13_Witness ==
    /\ Returned("check_linked_services_using_key_vault")
    /\ verbose # 0
    /\ Len(linked_services) = 2
    /\ IsKeyVault(linked_services[1])
    /\ \E k \in 1..Len(GetList(linked_services[1].properties, "typeProperties")) :
           LET item == linked_services[1].properties.typeProperties[k]
           IN  is_sensitive_property(item[1]) /\ "string" \in DOMAIN item[2]
    /\ ~IsKeyVault(linked_services[2])
    /\ RowOf("check_linked_services_using_key_vault").IssueCount = 1
    /\ Len(KeyVaultFindings) = 1

\* how often main has called the rule method `name` in this run
TimesRan(name) == Cardinality({i \in 1..Len(ran) : ran[i] = name})

\* C14: enumerating the rule names executes no rule: the step that prints them
\* leaves check_number, summary_table and verbose_detail_table as they were.
\* The names are those of the rule methods main calls: main calls no other
\* method as a rule, none twice, and a run that reaches its end has called
\* each enumerated name exactly once.
C14_EnumerationRunsNothing ==
    /\ [](/\ listed # <<>> => Range(listed) = Range(Catalog)
          /\ \A i \in 1..Len(ran) : ran[i] \in Range(get_check_names)
          /\ \A name \in Range(get_check_names) : TimesRan(name) <= 1
          /\ pc = "done" => \A name \in Range(get_check_names) : TimesRan(name) = 1)
    /\ [][(listed = <<>> /\ listed' # <<>>) =>
              /\ check_number' = check_number
              /\ summary_table' = summary_table
              /\ verbose_detail_table' = verbose_detail_table
              /\ ran' = ran]_vars

\* the names are printed after a run that recorded findings has ended
C14_Witness ==
    /\ listed # <<>>
    /\ Len(listed) = 22
    /\ pc = "done"
    /\ check_number = 22
    /\ verbose_detail_table # <<>>

\* the activities, as pipeline and position, that satisfy `test`
ActivitiesWhere(test(_)) ==
    {pk \in UNION {{<<i, k>> : k \in 1..Len(pipelines[i].properties.activities)} :
                      i \in 1..Len(pipelines)} :
        test(pipelines[pk[1]].properties.activities[pk[2]])}

HasDefaultTimeout(activity) ==
    has_timeout(activity) /\ activity.policy.timeout = "7.00:00:00"

\* C15: the IssueCount of check_activity_timeout_values is the number of
\* activities, over all pipelines, whose policy.timeout is "7.00:00:00".
C15_TimeoutCount ==
    Returned("check_activity_timeout_values") =>
        RowOf("check_activity_timeout_values").IssueCount
            = Cardinality(ActivitiesWhere(HasDefaultTimeout))

CopyWithoutUnits(activity) ==
    /\ "type" \in DOMAIN activity
    /\ activity.type = "Copy"
    /\ \/ "typeProperties" \notin DOMAIN activity
       \/ "dataIntegrationUnits" \notin DOMAIN activity.typeProperties

\* C16: the IssueCount of check_copy_activity_diu_values is the number of Copy
\* activities whose typeProperties.dataIntegrationUnits is unset, with or
\* without a policy.timeout.
C16_DiuCount ==
    Returned("check_copy_activity_diu_values") =>
        RowOf("check_copy_activity_diu_values").IssueCount
            = Cardinality(ActivitiesWhere(CopyWithoutUnits))

\* sum(item['IssueCount'] for item in rows)
RECURSIVE SumIssues(_)
SumIssues(rows) ==
    IF rows = <<>> THEN 0 ELSE Head(rows).IssueCount + SumIssues(Tail(rows))

\* C17: after the rules that have returned so far, a verbose checker holds as
\* many findings as the summary rows count issues; a checker that is not
\* verbose holds no finding at all, and its run never ends with a failure
\* status from assert_adf_lint_free.
C17_FindingsTrackIssueCounts ==
    /\ (verbose # 0 /\ pc # "crashed") =>
           Len(verbose_detail_table) = SumIssues(summary_table)
    /\ verbose = 0 => verbose_detail_table = <<>>
    /\ (verbose = 0 /\ pc = "done") => exit_status = 0

\* a verbose run has ended in which one rule counted two issues or more
C17_Witness ==
    /\ verbose # 0
    /\ pc = "done"
    /\ \E i \in 1..Len(summary_table) : summary_table[i].IssueCount >= 2
    /\ Len(verbose_detail_table) >= 3

\* `after` is `before` with rows appended, if any
Extends(after, before) ==
    Len(after) >= Len(before) /\ SubSeq(after, 1, Len(before)) = before

\* C18: between rule invocations check_number = len(summary_table); a rule
\* that returns adds 1 to check_number and one row to summary_table; no rule
\* removes or rewrites a row of summary_table or verbose_detail_table, and no
\* rule changes the document or what main has taken from it.
C18_ReportIsAppendOnly ==
    /\ [](pc # "crashed" => check_number = Len(summary_table))
    /\ [][(pc \in Range(Catalog)) =>
              /\ pc' # "crashed" =>
                     /\ check_number' = check_number + 1
                     /\ Len(summary_table') = Len(summary_table) + 1
              /\ Extends(summary_table', summary_table)
              /\ Extends(verbose_detail_table', verbose_detail_table)
              /\ doc' = doc
              /\ locals' = locals]_vars

\* in the middle of a verbose run, with findings recorded by earlier rules
C18_Witness ==
    /\ pc = "check_orphaned_dataset"
    /\ check_number = 15
    /\ Len(summary_table) = 15
    /\ Len(verbose_detail_table) >= 2

\* the pipelines among the orphaned identifiers main has computed
OrphanedPipelines ==
    {id \in Range(redundant_resources) : StartsWith(id, FamPipelines)}

\* the orphaned pipelines whose identifier holds "master" in lower case
OrphanedMasters ==
    {id \in OrphanedPipelines : Contains(id, <<"m","a","s","t","e","r">>)}

\* the findings of the rules that report on unused resources
OrphanFindings ==
    SelectSeq(verbose_detail_table, LAMBDA f :
        f.CheckDetail \in {"Does not have any triggers attached.",
                           "Not used by any other resource."})

====
